---- MODULE Spec2Model ----
(***************************************************************************)
(* Model of the gNMI streaming telemetry collector of st2110-monitoring:   *)
(*   exporters/gnmi/main.go               (main, GNMICollector)            *)
(*   exporters/vendor/arista/eos_collector.go (AristaEOSCollector)         *)
(*   exporters/vendor/cisco (CiscoNexusCollector, src/unnamed/part_002)    *)
(*                                                                         *)
(* Two specifications share the session steps:                             *)
(*   Spec        the gNMI collector process: main's start-up loop, one     *)
(*               goroutine per configured switch, the metrics endpoint.    *)
(*   SessionSpec one collector of one vendor kind whose run operation      *)
(*               (Subscribe, SubscribeArista, SubscribeCisco) is called    *)
(*               once by a caller that owns the context and may cancel it. *)
(* Time is counted in seconds by Tick.                                     *)
(***************************************************************************)
EXTENDS Integers, Sequences, FiniteSets, TLC

\* ------------------------------------------------------------- bounds
MaxSwitches == 2        \* switches listed in the configuration
MaxVal == 1             \* largest number carried by an update
MaxTotal == 2           \* largest value a Counter is followed to
StallMultiple == 2      \* the "small multiple" of the sampling interval
MaxTicks == 4           \* ticks the test stream generator is followed for

\* -------------------------------------------------- program constants
DialTimeout == 10       \* grpc.WithTimeout(10 * time.Second)
SampleInterval == 1     \* SampleInterval: 1000000000 ns
Word16 == 65536         \* values of a uint16: seqNumber wraps at 2^16
TimestampStep == 1500   \* g.timestamp += 1500

StallWindow == StallMultiple * SampleInterval

\* A receiving session is followed for one second of silence past the window.
MaxSilence == StallWindow + 1

Sessions == 1..MaxSwitches
Kinds == {"gnmi", "arista", "cisco"}
Ifaces == {"eth0", "eth1"}
Vals == 0..MaxVal

\* ------------------------------------------------------ configuration
\* SwitchConfig: Name, Target, Vendor (Username and Password play no part).
\* The i-th entry of Config.Switches: named sw<i>, at its own address, the
\* odd entries tagged arista and the even ones generic.
SwitchName(i) == CASE i = 1 -> "sw1" [] i = 2 -> "sw2" [] OTHER -> "sw3"
SwitchAddr(i) == CASE i = 1 -> "10.0.0.1:6030" [] i = 2 -> "10.0.0.2:6030"
                   [] OTHER -> "10.0.0.3:6030"
SwitchConfig(i) ==
  [name |-> SwitchName(i), target |-> SwitchAddr(i),
   vendor |-> IF i % 2 = 1 THEN "arista" ELSE "generic"]

\* The configurations read from the YAML file: one to MaxSwitches switches.
Configs == {[i \in 1..n |-> SwitchConfig(i)] : n \in 1..MaxSwitches}

\* An entry of the switches list that yaml.Unmarshal cannot decode into a
\* SwitchConfig (a scalar or a list where the mapping is expected).
BadEntry == [name |-> "", target |-> "", vendor |-> "", malformed |-> TRUE]
WellFormed(e) == "malformed" \notin DOMAIN e

\* The configuration files main may be started with: the well-formed ones, and
\* those with one entry that does not decode.
ConfigFiles ==
  Configs \cup UNION {{[i \in 1..n |-> IF i = b THEN BadEntry ELSE SwitchConfig(i)] :
                         b \in 1..n} : n \in 1..MaxSwitches}

\* ------------------------------------------------------------- paths
\* gnmi.PathElem: Name and Key (a map from key name to value).
NoKey == <<>>
Elem(n) == [name |-> n, key |-> NoKey]
KeyedElem(n, k, v) == [name |-> n, key |-> (k :> v)]

\* Go's map read: the zero value "" for a key that is not in the map.
KeyGet(key, k) == IF k \in DOMAIN key THEN key[k] ELSE ""

\* gnmi.Path: Origin and Elem; present = FALSE is the nil *gnmi.Path of an
\* update that carries no path field.
Path(o, es) == [present |-> TRUE, origin |-> o, elem |-> es]
NilPath == [present |-> FALSE, origin |-> "", elem |-> <<>>]

\* interfaces/interface[name=i]/state/counters
CountersPath(i) ==
  Path("", <<Elem("interfaces"), KeyedElem("interface", "name", i),
             Elem("state"), Elem("counters")>>)

\* qos/interfaces/interface[name=i]/output/queues/queue[name=q]/state
QosPath(i, q) ==
  Path("", <<Elem("qos"), Elem("interfaces"), KeyedElem("interface", "name", i),
             Elem("output"), Elem("queues"), KeyedElem("queue", "name", q),
             Elem("state")>>)

\* The hardware queue drops path SubscribeArista declares (nine elements).
AristaDropsPath(i, q) ==
  Path("arista", <<Elem("eos"), Elem("arista-exp-eos-qos"), Elem("qos"),
                   Elem("interfaces"), KeyedElem("interface", "name", i),
                   Elem("queues"), KeyedElem("queue", "queue-id", q),
                   Elem("state"), Elem("dropped-pkts")>>)

\* The same path without its "state" element: dropped-pkts is Elem[7].
AristaLeafPath(i, q) ==
  Path("arista", <<Elem("eos"), Elem("arista-exp-eos-qos"), Elem("qos"),
                   Elem("interfaces"), KeyedElem("interface", "name", i),
                   Elem("queues"), KeyedElem("queue", "queue-id", q),
                   Elem("dropped-pkts")>>)

\* Paths no handler has a branch for.
ShortIfPath(i) ==
  Path("", <<Elem("interfaces"), KeyedElem("interface", "name", i), Elem("state")>>)
ConfigIfPath(i) ==
  Path("", <<Elem("interfaces"), KeyedElem("interface", "name", i),
             Elem("config"), Elem("mtu")>>)
SystemPath == Path("", <<Elem("system"), Elem("state"), Elem("hostname")>>)

\* ------------------------------------------------------------ values
\* A JSON_IETF payload: valid = FALSE when json.Unmarshal into a map fails;
\* f holds the members that are JSON numbers (any other member fails the
\* .(float64) assertion exactly as an absent one does).
Doc(fs) == [valid |-> TRUE, f |-> fs]
BadDoc == [valid |-> FALSE, f |-> <<>>]
Member(doc, k) == k \in DOMAIN doc.f

\* Payloads of interface counters updates and of QoS queue updates.
CounterDocs ==
  {BadDoc, Doc(<<>>), Doc("out-octets" :> 1),
   Doc(("in-octets" :> 1) @@ ("out-octets" :> 1)),
   Doc(("in-octets" :> 1) @@ ("in-errors" :> 1))}
    \cup {Doc("in-octets" :> v) : v \in Vals}
QosDocs ==
  {BadDoc, Doc(("buffer-utilization" :> 1) @@ ("dropped-packets" :> 1))}
    \cup {Doc("dropped-packets" :> v) : v \in Vals}

\* gnmi.TypedValue: a JSON_IETF payload, an unsigned integer, or another kind.
JsonVal(d) == [kind |-> "json", doc |-> d, n |-> 0]
UintVal(v) == [kind |-> "uint", doc |-> BadDoc, n |-> v]
OtherVal == [kind |-> "other", doc |-> BadDoc, n |-> 0]

\* value.GetUintVal(): 0 unless the value is an unsigned integer.
GetUintVal(val) == IF val.kind = "uint" THEN val.n ELSE 0

\* value.GetJsonIetfVal() != nil
HasJsonIetfVal(val) == val.kind = "json"

Update(p, v) == [path |-> p, val |-> v]

\* gnmi.SubscribeResponse: a notification with its updates, or the sync marker.
UpdateResponse(us) == [type |-> "update", updates |-> us]
SyncResponse == [type |-> "sync", updates |-> <<>>]

\* The updates a device is taken to send: interface counters (every payload
\* on eth0, in-octets alone on eth1), QoS queue statistics, hardware queue
\* drops on the declared path and on the eight-element path, updates on
\* paths no handler has a branch for, and an update without a path.
Updates ==
  {Update(CountersPath("eth0"), JsonVal(d)) : d \in CounterDocs}
    \cup {Update(CountersPath("eth1"), JsonVal(Doc("in-octets" :> v))) : v \in Vals}
    \cup {Update(CountersPath("eth0"), OtherVal)}
    \cup {Update(QosPath("eth0", "q0"), JsonVal(d)) : d \in QosDocs}
    \cup {Update(AristaDropsPath("eth0", "q0"), UintVal(1))}
    \cup {Update(AristaLeafPath(i, "q0"), UintVal(v)) : i \in Ifaces, v \in Vals}
    \cup {Update(AristaLeafPath("eth0", "q0"), JsonVal(Doc(<<>>)))}
    \cup {Update(ShortIfPath("eth0"), JsonVal(Doc("in-octets" :> 1))),
          Update(ConfigIfPath("eth0"), JsonVal(Doc("in-octets" :> 1))),
          Update(SystemPath, UintVal(1)),
          Update(NilPath, UintVal(1))}

\* The responses a device is taken to send: every single-update notification,
\* the empty notification, two-update notifications on one interface, and the
\* sync marker.
Responses ==
  {SyncResponse, UpdateResponse(<<>>)}
    \cup {UpdateResponse(<<u>>) : u \in Updates}
    \cup {UpdateResponse(<<Update(CountersPath("eth0"), JsonVal(Doc("in-octets" :> v))),
                           Update(CountersPath("eth0"), JsonVal(Doc("in-octets" :> w)))>>)
           : v \in Vals, w \in Vals}
    \cup {UpdateResponse(<<Update(AristaLeafPath("eth0", "q0"), UintVal(1)),
                           Update(NilPath, UintVal(1))>>)}

\* ------------------------------------------------------------- store
\* The metric vectors of one collector: a map from (metric, label values) to
\* the value of that child. A key is <<metric, switch, interface, queue>>
\* (queue is "" for the metrics labelled switch, interface).
EmptyStore == <<>>
Key(metric, sw, iface, queue) == <<metric, sw, iface, queue>>

\* The metric vectors a collector of kind k is built with: every child of its
\* store belongs to one of them.
MetricNames(k) ==
  CASE k = "gnmi" ->
         {"st2110_switch_interface_rx_bytes", "st2110_switch_interface_tx_bytes",
          "st2110_switch_interface_rx_errors", "st2110_switch_interface_tx_errors",
          "st2110_switch_interface_rx_drops", "st2110_switch_interface_tx_drops",
          "st2110_switch_qos_buffer_utilization", "st2110_switch_qos_dropped_packets",
          "st2110_switch_multicast_groups"}
    [] k = "arista" ->
         {"arista_hw_queue_drops_total", "arista_ptp_lock_status",
          "arista_igmp_snooping_groups", "arista_tcam_utilization_percent"}
    [] k = "cisco" ->
         {"cisco_nexus_tcam_utilization_percent", "cisco_nexus_qos_policy_drops_total",
          "cisco_nexus_buffer_drops_total", "cisco_nexus_igmp_vlans"}
    [] OTHER -> {}

GaugeKeepFirst(st, k, v) == IF k \in DOMAIN st THEN st ELSE (k :> v) @@ st

\* GaugeVec.WithLabelValues(...).Set(v)
GaugeSet(st, k, v) == (k :> v) @@ st

\* CounterVec.WithLabelValues(...).Add(v): a new child starts at 0.
CounterAdd(st, k, v) == (k :> ((IF k \in DOMAIN st THEN st[k] ELSE 0) + v)) @@ st

\* What a scrape of /metrics gathers from the vectors: one sample per child,
\* made of its metric name and label values and its current value.
Snapshot(st) == {[key |-> k, value |-> st[k]] : k \in DOMAIN st}

\* ----------------------------------------------------------- parsing
\* parseCounters: only in-octets and out-octets are read; the other four
\* fields keep their zero value, as does every field when Unmarshal fails.
NumberOr0(doc, k) == IF doc.valid /\ Member(doc, k) THEN doc.f[k] ELSE 0

parseCounters(doc) ==
  [InOctets |-> NumberOr0(doc, "in-octets"),
   OutOctets |-> NumberOr0(doc, "out-octets"),
   InErrors |-> 0, OutErrors |-> 0, InDiscards |-> 0, OutDiscards |-> 0]

\* parseQoSStats
parseQoSStats(doc) ==
  [BufferUtilization |-> NumberOr0(doc, "buffer-utilization"),
   DroppedPackets |-> NumberOr0(doc, "dropped-packets")]

\* ---------------------------------------------------------- handlers
\* path.Elem[i] with Go's 0-based index.
ElemAt(path, i) == path.elem[i + 1]

\* handleUpdate, lines 257-273: the interface counters branch.
IsCountersPath(path) ==
  /\ Len(path.elem) >= 4
  /\ ElemAt(path, 0).name = "interfaces"
  /\ ElemAt(path, 2).name = "state"
  /\ ElemAt(path, 3).name = "counters"

SetCounters(st, sw, path, val) ==
  LET ifaceName == KeyGet(ElemAt(path, 1).key, "name")
      c == parseCounters(val.doc)
      s1 == GaugeSet(st, Key("st2110_switch_interface_rx_bytes", sw, ifaceName, ""), c.InOctets)
      s2 == GaugeSet(s1, Key("st2110_switch_interface_tx_bytes", sw, ifaceName, ""), c.OutOctets)
      s3 == GaugeSet(s2, Key("st2110_switch_interface_rx_errors", sw, ifaceName, ""), c.InErrors)
      s4 == GaugeSet(s3, Key("st2110_switch_interface_tx_errors", sw, ifaceName, ""), c.OutErrors)
      s5 == GaugeSet(s4, Key("st2110_switch_interface_rx_drops", sw, ifaceName, ""), c.InDiscards)
  IN  GaugeSet(s5, Key("st2110_switch_interface_tx_drops", sw, ifaceName, ""), c.OutDiscards)

\* handleUpdate, lines 275-285: the QoS queue branch.
IsQosPathAnyName(path) == Len(path.elem) >= 7
IsQosPath(path) == Len(path.elem) >= 7 /\ ElemAt(path, 0).name = "qos"

SetQos(st, sw, path, val) ==
  LET ifaceName == KeyGet(ElemAt(path, 2).key, "name")
      queueName == KeyGet(ElemAt(path, 5).key, "name")
      q == parseQoSStats(val.doc)
      s1 == GaugeSet(st, Key("st2110_switch_qos_buffer_utilization", sw, ifaceName, queueName),
                     q.BufferUtilization)
  IN  GaugeSet(s1, Key("st2110_switch_qos_dropped_packets", sw, ifaceName, queueName),
               q.DroppedPackets)

\* The body of handleUpdate's loop for one update that carries a path.
GnmiApply(st, sw, u) ==
  LET s1 == IF IsCountersPath(u.path) /\ HasJsonIetfVal(u.val)
            THEN SetCounters(st, sw, u.path, u.val) ELSE st
  IN  IF IsQosPath(u.path) /\ HasJsonIetfVal(u.val)
      THEN SetQos(s1, sw, u.path, u.val) ELSE s1

\* handleAristaUpdate, lines 158-173.
IsDropsPath(path) ==
  /\ path.origin = "arista"
  /\ Len(path.elem) > 7
  /\ ElemAt(path, 7).name = "dropped-pkts"

AristaApply(st, sw, u) ==
  IF IsDropsPath(u.path)
  THEN CounterAdd(st, Key("arista_hw_queue_drops_total", sw,
                          KeyGet(ElemAt(u.path, 4).key, "name"),
                          KeyGet(ElemAt(u.path, 6).key, "queue-id")),
                  GetUintVal(u.val))
  ELSE st

\* One update in the handler of a collector of kind k.
ApplyUpdate(k, st, sw, u) ==
  IF k = "gnmi" THEN GnmiApply(st, sw, u) ELSE AristaApply(st, sw, u)

RECURSIVE ApplyAllLastFirst(_, _, _, _)
ApplyAllLastFirst(k, st, sw, us) ==
  IF us = <<>> THEN [store |-> st, panic |-> FALSE]
  ELSE IF ~us[Len(us)].path.present THEN [store |-> st, panic |-> TRUE]
  ELSE ApplyAllLastFirst(k, ApplyUpdate(k, st, sw, us[Len(us)]), sw,
                         SubSeq(us, 1, Len(us) - 1))

\* The for loop over notification.Update, in order. Reading path.Elem (or
\* path.Origin) of an update without a path is a nil dereference: the
\* goroutine panics and the updates after it are not handled.
RECURSIVE ApplyAll(_, _, _, _)
ApplyAll(k, st, sw, us) ==
  IF us = <<>> THEN [store |-> st, panic |-> FALSE]
  ELSE IF ~Head(us).path.present THEN [store |-> st, panic |-> TRUE]
  ELSE ApplyAll(k, ApplyUpdate(k, st, sw, Head(us)), sw, Tail(us))

HandleResponseSyncClears(k, st, sw, r) ==
  IF r.type = "update" THEN ApplyAll(k, st, sw, r.updates)
  ELSE [store |-> EmptyStore, panic |-> FALSE]

\* handleUpdate / handleAristaUpdate: the switch on the response type.
HandleResponse(k, st, sw, r) ==
  IF r.type = "update" THEN ApplyAll(k, st, sw, r.updates)
  ELSE [store |-> st, panic |-> FALSE]

\* The branch of the handler of kind k that the path of an update selects.
Branch(k, path) ==
  IF k = "gnmi"
  THEN IF IsCountersPath(path) THEN "counters"
       ELSE IF IsQosPath(path) THEN "qos" ELSE "none"
  ELSE IF IsDropsPath(path) THEN "drops" ELSE "none"

\* How the handler dealt with a response: "sync" (the sync marker), "empty" (a
\* notification without updates), "panic" (an update without a path), and
\* for the last update of a notification "skip" (no branch for its path),
\* "noval" (a branch, but no JSON_IETF payload to parse) or "write".
Outcome(k, r) ==
  IF r.type # "update" THEN "sync"
  ELSE IF r.updates = <<>> THEN "empty"
  ELSE IF \E i \in 1..Len(r.updates) : ~r.updates[i].path.present THEN "panic"
  ELSE LET u == r.updates[Len(r.updates)]
       IN  IF Branch(k, u.path) = "none" THEN "skip"
           ELSE IF k = "gnmi" /\ ~HasJsonIetfVal(u.val) THEN "noval"
           ELSE "write"

\* ------------------------------------------------------------- state
VARIABLES
  cfg,        \* Config.Switches
  proc,       \* main: "loading", "starting", "serving", "dead"; "api" when
              \* there is no main
  idx,        \* main's loop over config.Switches: the next entry
  registered, \* the default registry holds the GNMICollector metric names
  kind,       \* kind[s]: which collector session s runs
  running,    \* running[s]: goroutines inside the run operation of entry s
  pc,         \* pc[s]: where the run operation of s stands
  ctxDone,    \* ctxDone[s]: the context given to the run operation is cancelled
  conn,       \* conn[s]: the connection grpc.Dial returned is open
  waited,     \* waited[s]: seconds spent in the current blocking call
  store,      \* store[s]: the metric vectors of the collector of s
  lastEvt,    \* lastEvt[s]: Outcome of the last response received ("none" before)
  carried     \* carried[s]: per Counter child, the value the last update carried
              \* and whether the carried values never decreased so far

\* The other programs of the repository, each a process of its own.
VARIABLES
  ptpStore,   \* PTP exporter: the children of its four gauge vectors
  ptpLast     \* what the last pmc query gave: "none" before the first run,
              \* "failed", "nostate", or the clock state word it reported

ptpVars == <<ptpStore, ptpLast>>

\* handleUpdate followed one Set call at a time, next to the /metrics handler.
VARIABLES
  hStore,     \* the metric vectors of the collector
  hPos,       \* 0: in stream.Recv; i in 1..6: the i-th Set call is next
  hSets,      \* the six (child, value) pairs of the update being handled
  hBefore,    \* hStore when the update being handled was received
  scraped     \* what the last scrape of /metrics returned

scrapeVars == <<hStore, hPos, hSets, hBefore, scraped>>

\* The test stream generator (exporters/synthetic).
VARIABLES
  seqNumber,     \* g.seqNumber, uint16
  timestamp,     \* g.timestamp, uint32, as its two 16-bit halves
  injectErrors,  \* g.injectErrors
  errorRate,     \* g.errorRate, a percentage
  genTicks,      \* ticks of the ticker handled so far
  genLast,       \* how the last sendPacket ended: "none", "loss", "error", "sent"
  lastSentSeq,   \* SequenceNumber of the last packet written, -1 before the first
  lostSince      \* packets skipped as injected loss since that packet

genVars == <<seqNumber, timestamp, injectErrors, errorRate, genTicks, genLast,
             lastSentSeq, lostSince>>

\* The Lawo VSM exporter.
VARIABLES
  vsmStore,   \* the children of its four gauge vectors
  vsmPos,     \* "idle" between two runs of Collect, else the request
              \* ("devices", "pathways", "alarms") whose answer Collect awaits
  vsmLast     \* of the last run of Collect, finished or not: whether there
              \* was one, whether it returned nil, the vectors when it was
              \* entered, and what the VSM server answered to its requests

vsmVars == <<vsmStore, vsmPos, vsmLast>>

exporters == <<ptpVars, scrapeVars, genVars, vsmVars>>

vars == <<cfg, proc, idx, registered, kind, running, pc, ctxDone, conn, waited,
          store, lastEvt, carried, exporters>>

\* c.target, the value of the "switch" label.
Target(s) == cfg[s].target

\* The PTP exporter is not running.
PTPIdle == ptpStore = EmptyStore /\ ptpLast = "none"

\* handleUpdate is not followed Set by Set.
ScrapeIdle ==
  /\ hStore = EmptyStore
  /\ hPos = 0
  /\ hSets = <<>>
  /\ hBefore = EmptyStore
  /\ scraped = {}

\* The test stream generator is not running.
GenIdle ==
  /\ seqNumber = 0
  /\ timestamp = [hi |-> 0, lo |-> 0]
  /\ injectErrors = FALSE
  /\ errorRate = 0
  /\ genTicks = 0
  /\ genLast = "none"
  /\ lastSentSeq = -1
  /\ lostSince = 0

\* The Lawo VSM exporter is not running.
VsmUnanswered ==
  [devices |-> [err |-> TRUE, list |-> <<>>],
   pathways |-> [err |-> TRUE, list |-> <<>>],
   alarms |-> [err |-> TRUE, list |-> <<>>]]
VsmNoRun ==
  [ran |-> FALSE, ok |-> FALSE, from |-> EmptyStore,
   answer |-> VsmUnanswered]
VSMIdle == vsmStore = EmptyStore /\ vsmPos = "idle" /\ vsmLast = VsmNoRun

\* No exporter other than the gNMI collector is running.
ExportersIdle == PTPIdle /\ ScrapeIdle /\ GenIdle /\ VSMIdle

\* No goroutine has entered a run operation.
IdleSessions ==
  /\ running = [s \in Sessions |-> 0]
  /\ pc = [s \in Sessions |-> "idle"]
  /\ ctxDone = [s \in Sessions |-> FALSE]
  /\ conn = [s \in Sessions |-> FALSE]
  /\ waited = [s \in Sessions |-> 0]
  /\ store = [s \in Sessions |-> EmptyStore]
  /\ lastEvt = [s \in Sessions |-> "none"]
  /\ carried = [s \in Sessions |-> <<>>]

InitSessions == IdleSessions /\ ExportersIdle

\* The state of the gNMI collector's variables in the process of another
\* exporter: no configuration entry is started and no collector is called.
NoCollector ==
  /\ cfg = <<SwitchConfig(1)>>
  /\ proc = "api"
  /\ idx = 1
  /\ registered = FALSE
  /\ kind = [s \in Sessions |-> "gnmi"]
  /\ IdleSessions

collector == <<cfg, proc, idx, registered, kind, running, pc, ctxDone, conn, waited,
               store, lastEvt, carried>>

\* main after flag.Parse, ReadFile and yaml.Unmarshal succeeded. main builds a
\* GNMICollector for every entry, whatever its Vendor.
Init ==
  /\ cfg \in Configs
  /\ proc = "starting"
  /\ idx = 1
  /\ registered = FALSE
  /\ kind = [s \in Sessions |-> "gnmi"]
  /\ InitSessions

\* main after flag.Parse and ReadFile, before yaml.Unmarshal.
InitLoad ==
  /\ cfg \in ConfigFiles
  /\ proc = "loading"
  /\ idx = 1
  /\ registered = FALSE
  /\ kind = [s \in Sessions |-> "gnmi"]
  /\ InitSessions

\* One collector built by New...Collector(target, ...), its run operation not
\* yet called.
InitSession ==
  /\ cfg \in {c \in Configs : Len(c) = 1}
  /\ proc = "api"
  /\ idx = 1
  /\ registered = FALSE
  /\ \E k \in Kinds : kind = [s \in Sessions |-> k]
  /\ InitSessions

\* A goroutine of s is inside the run operation and the process lives.
Live(s) == proc # "dead" /\ running[s] >= 1

\* s has an active subscription session.
Active(s) == Live(s) /\ pc[s] \in {"connect", "open", "send", "recv"}

\* --------------------------------------------------------------- main
\* go func(c, name) { ... c.Subscribe(ctx) ... }(collector, sw.Name)
SpawnTwice(run, s) == [run EXCEPT ![s] = @ + 2]
Spawn(run, s) == [run EXCEPT ![s] = @ + 1]

\* yaml.Unmarshal(data, &config): an entry that does not decode makes it
\* return an error, and main ends the process with log.Fatalf.
LoadConfig ==
  /\ proc = "loading"
  /\ proc' = IF \A i \in DOMAIN cfg : WellFormed(cfg[i]) THEN "starting" ELSE "dead"
  /\ UNCHANGED <<exporters, cfg, idx, registered, kind, running, pc, ctxDone, conn, waited,
                 store, lastEvt, carried>>

\* One iteration of "for _, sw := range config.Switches": NewGNMICollector
\* registers nine metric names with the default registry, and MustRegister
\* panics when they are registered already; otherwise the goroutine starts
\* and enters Subscribe with context.Background().
StartCollector ==
  /\ proc = "starting"
  /\ idx <= Len(cfg)
  /\ IF registered
     THEN /\ proc' = "dead"
          /\ UNCHANGED <<idx, registered, running, pc>>
     ELSE /\ registered' = TRUE
          /\ running' = Spawn(running, idx)
          /\ pc' = [pc EXCEPT ![idx] = "connect"]
          /\ idx' = idx + 1
          /\ UNCHANGED proc
  /\ UNCHANGED <<exporters, cfg, kind, ctxDone, conn, waited, store, lastEvt, carried>>

\* http.Handle and http.ListenAndServe once the loop is over.
Serve ==
  /\ proc = "starting"
  /\ idx > Len(cfg)
  /\ proc' = "serving"
  /\ UNCHANGED <<exporters, cfg, idx, registered, kind, running, pc, ctxDone, conn, waited,
                 store, lastEvt, carried>>

\* log.Fatal(http.ListenAndServe(...)): ListenAndServe returned its error.
ListenFail ==
  /\ proc = "serving"
  /\ proc' = "dead"
  /\ UNCHANGED <<exporters, cfg, idx, registered, kind, running, pc, ctxDone, conn, waited,
                 store, lastEvt, carried>>

LogExitFatal(s) ==
  /\ proc \notin {"dead", "api"}
  /\ running[s] >= 1
  /\ pc[s] = "failed"
  /\ pc' = [pc EXCEPT ![s] = "exited"]
  /\ running' = [running EXCEPT ![s] = @ - 1]
  /\ proc' = "dead"
  /\ UNCHANGED <<exporters, cfg, idx, registered, kind, ctxDone, conn, waited, store,
                 lastEvt, carried>>

\* The goroutine after Subscribe returned its error: log.Printf, and it ends.
LogExit(s) ==
  /\ Live(s)
  /\ proc # "api"
  /\ pc[s] = "failed"
  /\ pc' = [pc EXCEPT ![s] = "exited"]
  /\ running' = [running EXCEPT ![s] = @ - 1]
  /\ UNCHANGED <<exporters, cfg, proc, idx, registered, kind, ctxDone, conn, waited, store,
                 lastEvt, carried>>

\* ------------------------------------------------------------ caller
\* The first statement of each run operation: Subscribe dials, SubscribeArista
\* is handed a client and opens its stream, SubscribeCisco builds its request.
Entry(k) == CASE k = "gnmi" -> "connect" [] k = "arista" -> "open" [] OTHER -> "build"

\* A caller calls the run operation of its collector.
Call(s) ==
  /\ proc = "api"
  /\ s \in 1..Len(cfg)
  /\ pc[s] = "idle"
  /\ running' = Spawn(running, s)
  /\ pc' = [pc EXCEPT ![s] = Entry(kind[s])]
  /\ UNCHANGED <<exporters, cfg, proc, idx, registered, kind, ctxDone, conn, waited, store,
                 lastEvt, carried>>

\* The caller cancels the context it passed.
Cancel(s) ==
  /\ proc = "api"
  /\ s \in 1..Len(cfg)
  /\ ~ctxDone[s]
  /\ ctxDone' = [ctxDone EXCEPT ![s] = TRUE]
  /\ UNCHANGED <<exporters, cfg, proc, idx, registered, kind, running, pc, conn, waited,
                 store, lastEvt, carried>>

\* The run operation returned to a caller: main's goroutine goes on to LogExit.
Returned(run, s) == IF proc = "api" THEN [run EXCEPT ![s] = @ - 1] ELSE run

\* ----------------------------------------------------------- session
\* Connect: grpc.Dial with WithBlock returned a connection.
ConnectOK(s) ==
  /\ Live(s)
  /\ pc[s] = "connect"
  /\ conn' = [conn EXCEPT ![s] = TRUE]
  /\ pc' = [pc EXCEPT ![s] = "open"]
  /\ waited' = [waited EXCEPT ![s] = 0]
  /\ UNCHANGED <<exporters, cfg, proc, idx, registered, kind, running, ctxDone, store,
                 lastEvt, carried>>

\* Connect: the blocking dial ran into its 10 s timeout and Subscribe returns
\* "failed to connect". The dial is given no context.
ConnectTimeout(s) ==
  /\ Live(s)
  /\ pc[s] = "connect"
  /\ waited[s] = DialTimeout
  /\ pc' = [pc EXCEPT ![s] = "failed"]
  /\ running' = Returned(running, s)
  /\ waited' = [waited EXCEPT ![s] = 0]
  /\ UNCHANGED <<exporters, cfg, proc, idx, registered, kind, ctxDone, conn, store,
                 lastEvt, carried>>

\* client.Subscribe(ctx) opened the stream.
OpenOK(s) ==
  /\ Live(s)
  /\ pc[s] = "open"
  /\ ~ctxDone[s]
  /\ pc' = [pc EXCEPT ![s] = "send"]
  /\ UNCHANGED <<exporters, cfg, proc, idx, registered, kind, running, ctxDone, conn,
                 waited, store, lastEvt, carried>>

\* client.Subscribe(ctx) failed: "failed to subscribe".
OpenErr(s) ==
  /\ Live(s)
  /\ pc[s] = "open"
  /\ pc' = [pc EXCEPT ![s] = "failed"]
  /\ running' = Returned(running, s)
  /\ UNCHANGED <<exporters, cfg, proc, idx, registered, kind, ctxDone, conn, waited, store,
                 lastEvt, carried>>

\* stream.Send(subscribeReq) succeeded.
SendOK(s) ==
  /\ Live(s)
  /\ pc[s] = "send"
  /\ ~ctxDone[s]
  /\ pc' = [pc EXCEPT ![s] = "recv"]
  /\ waited' = [waited EXCEPT ![s] = 0]
  /\ UNCHANGED <<exporters, cfg, proc, idx, registered, kind, running, ctxDone, conn, store,
                 lastEvt, carried>>

\* stream.Send failed: "failed to send subscription".
SendErr(s) ==
  /\ Live(s)
  /\ pc[s] = "send"
  /\ pc' = [pc EXCEPT ![s] = "failed"]
  /\ running' = Returned(running, s)
  /\ UNCHANGED <<exporters, cfg, proc, idx, registered, kind, ctxDone, conn, waited, store,
                 lastEvt, carried>>

\* stream.Recv returned an error (end of stream, transport error, cancelled
\* context): "stream error".
RecvErr(s) ==
  /\ Live(s)
  /\ pc[s] = "recv"
  /\ pc' = [pc EXCEPT ![s] = "failed"]
  /\ running' = Returned(running, s)
  /\ waited' = [waited EXCEPT ![s] = 0]
  /\ UNCHANGED <<exporters, cfg, proc, idx, registered, kind, ctxDone, conn, store, lastEvt,
                 carried>>

\* What the updates of a response carried for the children of the Counter
\* arista_hw_queue_drops_total: the last unsigned value, and whether the
\* values carried for that child never decreased.
Track(k, cr, sw, u) ==
  IF k = "arista" /\ IsDropsPath(u.path) /\ u.val.kind = "uint"
  THEN LET key == Key("arista_hw_queue_drops_total", sw,
                      KeyGet(ElemAt(u.path, 4).key, "name"),
                      KeyGet(ElemAt(u.path, 6).key, "queue-id"))
           mono == IF key \in DOMAIN cr
                   THEN cr[key].mono /\ cr[key].last <= u.val.n ELSE TRUE
       IN  (key :> [last |-> u.val.n, mono |-> mono]) @@ cr
  ELSE cr

RECURSIVE TrackAll(_, _, _, _)
TrackAll(k, cr, sw, us) ==
  IF us = <<>> \/ ~Head(us).path.present THEN cr
  ELSE TrackAll(k, Track(k, cr, sw, Head(us)), sw, Tail(us))

\* stream.Recv returned response r and the handler ran on it. A panic of the
\* handler ends the process (main) or unwinds into the caller.
RecvUpdate(s, r) ==
  /\ Live(s)
  /\ pc[s] = "recv"
  /\ \E res \in {HandleResponse(kind[s], store[s], Target(s), r)} :
         /\ \A x \in DOMAIN res.store : res.store[x] <= MaxTotal
         /\ store' = [store EXCEPT ![s] = res.store]
         /\ pc' = [pc EXCEPT ![s] = IF res.panic THEN "panicked" ELSE "recv"]
         /\ running' = IF res.panic THEN Returned(running, s) ELSE running
         /\ proc' = IF res.panic /\ proc # "api" THEN "dead" ELSE proc
  /\ carried' = [carried EXCEPT ![s] = TrackAll(kind[s], @, Target(s), r.updates)]
  /\ lastEvt' = [lastEvt EXCEPT ![s] = Outcome(kind[s], r)]
  /\ waited' = [waited EXCEPT ![s] = 0]
  /\ UNCHANGED <<exporters, cfg, idx, registered, kind, ctxDone, conn>>

\* SubscribeCisco: the request is built and the operation returns nil.
CiscoReturn(s) ==
  /\ Live(s)
  /\ pc[s] = "build"
  /\ pc' = [pc EXCEPT ![s] = "returned"]
  /\ running' = Returned(running, s)
  /\ UNCHANGED <<exporters, cfg, proc, idx, registered, kind, ctxDone, conn, waited, store,
                 lastEvt, carried>>

\* A second passes while s is blocked in grpc.Dial or in stream.Recv.
Tick(s) ==
  /\ Live(s)
  /\ \/ pc[s] = "connect" /\ waited[s] < DialTimeout
     \/ pc[s] = "recv" /\ waited[s] < MaxSilence
  /\ waited' = [waited EXCEPT ![s] = @ + 1]
  /\ UNCHANGED <<exporters, cfg, proc, idx, registered, kind, running, pc, ctxDone, conn,
                 store, lastEvt, carried>>

\* ------------------------------------------------------ specifications
SessionStep ==
  \E s \in Sessions :
    \/ ConnectOK(s) \/ ConnectTimeout(s)
    \/ OpenOK(s) \/ OpenErr(s)
    \/ SendOK(s) \/ SendErr(s)
    \/ RecvErr(s)
    \/ \E r \in Responses : RecvUpdate(s, r)

Next ==
  \/ StartCollector
  \/ Serve
  \/ ListenFail
  \/ SessionStep
  \/ \E s \in Sessions : LogExit(s)
  \/ \E s \in Sessions : Tick(s)

Spec == Init /\ [][Next]_vars

\* The steps of the process itself are taken when they can be: the scheduler
\* runs main's loop and a goroutine whose Subscribe has returned.
FairSpec ==
  /\ Spec
  /\ WF_vars(StartCollector)
  /\ WF_vars(Serve)
  /\ \A s \in Sessions : WF_vars(LogExit(s))

\* The process from the moment the configuration file has been read.
NextLoad ==
  \/ LoadConfig
  \/ Next

LoadSpec == InitLoad /\ [][NextLoad]_vars

NextSession ==
  \/ \E s \in Sessions : Call(s)
  \/ \E s \in Sessions : Cancel(s)
  \/ SessionStep
  \/ \E s \in Sessions : CiscoReturn(s)
  \/ \E s \in Sessions : Tick(s)

SessionSpec == InitSession /\ [][NextSession]_vars

\* ------------------------------------------------------- PTP exporter
\* A token of the pmc output after a field name: a decimal number (its text
\* is n, with a minus sign when n < 0), a word, other text, or no such line.
PtpAbsent == [k |-> "absent"]
PtpJunk == [k |-> "junk"]
PtpNum(n) == [k |-> "num", n |-> n]
PtpWord(w) == [k |-> "word", w |-> w]

\* offsetFromMaster\s+(-?\d+), (\d+) of meanPathDelay and stepsRemoved,
\* clockState\s+(\w+): whether FindStringSubmatch finds the group.
MatchInt(tok) == tok.k = "num"
MatchNat(tok) == tok.k = "num" /\ tok.n >= 0
MatchWord(tok) == tok.k = "word"

PtpWords == {"LOCKED", "HOLDOVER", "FREERUN", "UNCALIBRATED"}

\* What cmd.CombinedOutput() returns: an error, or the output text.
PmcFailed ==
  [ok |-> FALSE, offset |-> PtpAbsent, delay |-> PtpAbsent, steps |-> PtpAbsent,
   state |-> PtpAbsent]
PmcOutputs ==
  {PmcFailed} \cup
  [ok : {TRUE},
   offset : {PtpAbsent, PtpJunk, PtpNum(-1), PtpNum(1)},
   delay : {PtpAbsent, PtpNum(-1)} \cup {PtpNum(v) : v \in Vals},
   steps : {PtpAbsent} \cup {PtpNum(v) : v \in Vals},
   state : {PtpAbsent, PtpJunk} \cup {PtpWord(w) : w \in PtpWords}]

\* WithLabelValues(e.device, e.interfaceName[, "grandmaster"])
PtpKey(metric, master) == <<metric, "ptp0", "eth0", master>>

\* The switch on the state word.
ClockStateLockedOnly(w) == IF w = "LOCKED" THEN 1 ELSE 0
ClockStateValue(w) == CASE w = "LOCKED" -> 1 [] w = "HOLDOVER" -> 2 [] OTHER -> 0

\* CollectPTPMetrics on the result out of the pmc query.
CollectPTPMetrics(st, out) ==
  IF ~out.ok THEN GaugeSet(st, PtpKey("st2110_ptp_clock_state", ""), 0)
  ELSE
    LET s1 == IF MatchInt(out.offset)
              THEN GaugeSet(st, PtpKey("st2110_ptp_offset_nanoseconds", "grandmaster"),
                            out.offset.n)
              ELSE st
        s2 == IF MatchNat(out.delay)
              THEN GaugeSet(s1, PtpKey("st2110_ptp_mean_path_delay_nanoseconds",
                                       "grandmaster"), out.delay.n)
              ELSE s1
        s3 == IF MatchNat(out.steps)
              THEN GaugeSet(s2, PtpKey("st2110_ptp_steps_removed", ""), out.steps.n)
              ELSE s2
    IN  IF MatchWord(out.state)
        THEN GaugeSet(s3, PtpKey("st2110_ptp_clock_state", ""),
                      ClockStateValue(out.state.w))
        ELSE GaugeSet(s3, PtpKey("st2110_ptp_clock_state", ""), 1)

\* What a query gave, as far as the clock state goes.
PtpReport(out) ==
  IF ~out.ok THEN "failed" ELSE IF MatchWord(out.state) THEN out.state.w ELSE "nostate"

\* NewPTPExporter: no child yet.
InitPTP ==
  /\ NoCollector
  /\ ptpStore = EmptyStore
  /\ ptpLast = "none"
  /\ ScrapeIdle /\ GenIdle /\ VSMIdle

\* One run of CollectPTPMetrics, at start and at every tick of Start.
PTPCollect ==
  \E out \in PmcOutputs :
    /\ ptpStore' = CollectPTPMetrics(ptpStore, out)
    /\ ptpLast' = PtpReport(out)
    /\ UNCHANGED <<collector, scrapeVars, genVars, vsmVars>>

PTPSpec == InitPTP /\ [][PTPCollect]_vars

\* ------------------------------------- handleUpdate next to a scrape
\* The six Set calls of the interface counters branch, in program order:
\* the child each one writes and the value it writes.
CounterSets(sw, path, val) ==
  LET ifaceName == KeyGet(ElemAt(path, 1).key, "name")
      c == parseCounters(val.doc)
  IN  <<<<Key("st2110_switch_interface_rx_bytes", sw, ifaceName, ""), c.InOctets>>,
        <<Key("st2110_switch_interface_tx_bytes", sw, ifaceName, ""), c.OutOctets>>,
        <<Key("st2110_switch_interface_rx_errors", sw, ifaceName, ""), c.InErrors>>,
        <<Key("st2110_switch_interface_tx_errors", sw, ifaceName, ""), c.OutErrors>>,
        <<Key("st2110_switch_interface_rx_drops", sw, ifaceName, ""), c.InDiscards>>,
        <<Key("st2110_switch_interface_tx_drops", sw, ifaceName, ""), c.OutDiscards>>>>

\* A collector whose session receives, and the endpoint serving.
InitScrape ==
  /\ NoCollector
  /\ PTPIdle /\ GenIdle /\ VSMIdle
  /\ hStore = EmptyStore
  /\ hPos = 0
  /\ hSets = <<>>
  /\ hBefore = EmptyStore
  /\ scraped = {}

\* stream.Recv returns an interface counters update of eth0 with a JSON
\* payload; handleUpdate parses it and reaches the first Set call.
RecvCounters ==
  \E d \in CounterDocs :
    /\ hPos = 0
    /\ hSets' = CounterSets(Target(1), CountersPath("eth0"), JsonVal(d))
    /\ hBefore' = hStore
    /\ hPos' = 1
    /\ UNCHANGED <<hStore, scraped, collector, ptpVars, genVars, vsmVars>>

\* One of the six WithLabelValues(...).Set(...) calls; after the sixth
\* handleUpdate returns and the loop is back in stream.Recv.
SetGauge ==
  /\ hPos \in 1..6
  /\ hStore' = GaugeSet(hStore, hSets[hPos][1], hSets[hPos][2])
  /\ hPos' = IF hPos = 6 THEN 0 ELSE hPos + 1
  /\ UNCHANGED <<hSets, hBefore, scraped, collector, ptpVars, genVars, vsmVars>>

\* The HTTP server's goroutine serves GET /metrics: promhttp gathers the
\* current value of every child. Nothing orders it against handleUpdate.
Scrape ==
  /\ scraped' = Snapshot(hStore)
  /\ UNCHANGED <<hStore, hPos, hSets, hBefore, collector, ptpVars, genVars, vsmVars>>

NextScrape == RecvCounters \/ SetGauge \/ Scrape

ScrapeSpec == InitScrape /\ [][NextScrape]_vars

\* ----------------------------------------------- test stream generator
\* g.seqNumber++ on a uint16.
Inc16NoWrap(x) == x + 1
Inc16(x) == (x + 1) % Word16

\* t + n on a uint32 held as two 16-bit halves, for n < 2^16.
Add32(t, n) ==
  [hi |-> (t.hi + ((t.lo + n) \div Word16)) % Word16,
   lo |-> (t.lo + n) % Word16]

\* The state of the counters after m ticks that each sent a packet:
\* m = 0 (construction), m = 65534 (the sequence number is about to wrap),
\* m = 2863311 (the timestamp, 4294966500, is about to wrap).
GenStarts ==
  {[seq |-> 0, ts |-> [hi |-> 0, lo |-> 0]],
   [seq |-> 65534, ts |-> [hi |-> 1499, lo |-> 62536]],
   [seq |-> 45263, ts |-> [hi |-> 65535, lo |-> 64740]]}

\* -error-rate: main calls InjectErrors only for a rate above 0.
GenRates == {0, 50, 100}

\* Values of rand.Float64()*100, which lies in [0, 100).
GenDraws == {0, 99}

InitGen ==
  /\ NoCollector
  /\ PTPIdle /\ ScrapeIdle /\ VSMIdle
  /\ \E st \in GenStarts : seqNumber = st.seq /\ timestamp = st.ts
  /\ errorRate \in GenRates
  /\ injectErrors = (errorRate > 0)
  /\ genTicks = 0
  /\ genLast = "none"
  /\ lastSentSeq = -1
  /\ lostSince = 0

\* One tick of Start's loop: sendPacket, whose error is only logged. r is the
\* random draw; io tells whether rand.Read, SerializeLayers and conn.Write
\* all succeed.
sendPacket ==
  \E r \in GenDraws, io \in {"ok", "error"} :
    /\ genTicks < MaxTicks
    /\ genTicks' = genTicks + 1
    /\ IF injectErrors /\ r < errorRate
       THEN /\ seqNumber' = Inc16(seqNumber)
            /\ genLast' = "loss"
            /\ lostSince' = lostSince + 1
            /\ UNCHANGED <<timestamp, lastSentSeq>>
       ELSE IF io = "error"
       THEN /\ genLast' = "error"
            /\ UNCHANGED <<seqNumber, timestamp, lastSentSeq, lostSince>>
       ELSE /\ seqNumber' = Inc16(seqNumber)
            /\ timestamp' = Add32(timestamp, TimestampStep)
            /\ genLast' = "sent"
            /\ lastSentSeq' = seqNumber
            /\ lostSince' = 0
    /\ UNCHANGED <<injectErrors, errorRate, collector, ptpVars, scrapeVars, vsmVars>>

GenSpec == InitGen /\ [][sendPacket]_vars

\* ------------------------------------------------- Lawo VSM exporter
VsmSeverities == {"critical", "warning", "info", "major"}

\* VSMDevice, VSMPathway and VSMAlarm as the server's JSON lists carry them.
VsmDevices ==
  {<<>>, <<[name |-> "mc1", type |-> "console", status |-> "OK", connected |-> TRUE]>>}
VsmPathways ==
  {<<>>, <<[name |-> "p1", source |-> "a", destination |-> "b", active |-> TRUE]>>}
VsmAlarms ==
  {<<>>} \cup {<<[severity |-> a]>> : a \in VsmSeverities}
    \cup {<<[severity |-> a], [severity |-> b]>> : a, b \in VsmSeverities}

\* What the VSM server does with a GET request: whether client.Do fails, and
\* the list in the body it sends.
VsmDeviceAnswers == [err : BOOLEAN, list : VsmDevices]
VsmPathwayAnswers == [err : BOOLEAN, list : VsmPathways]
VsmAlarmAnswers == [err : BOOLEAN, list : VsmAlarms]

\* What it does with the three requests of one Collect.
VsmAnswers ==
  [devices : VsmDeviceAnswers, pathways : VsmPathwayAnswers, alarms : VsmAlarmAnswers]

\* makeRequest: body is declared as a nil slice and resp.Body.Read(body)
\* reads at most len(body) = 0 bytes into it, so the data returned is empty
\* whatever the response carries.
NoData == [empty |-> TRUE, list |-> <<>>]
makeRequest(ans) == [err |-> ans.err, data |-> NoData]

\* json.Unmarshal(data, &result) with its error dropped: on empty data the
\* result keeps its zero value, a nil list.
Unmarshal(data) == IF data.empty THEN <<>> ELSE data.list

\* getDevices, getPathways, getAlarms.
getList(ans) ==
  LET res == makeRequest(ans)
  IN  [err |-> res.err, list |-> IF res.err THEN <<>> ELSE Unmarshal(res.data)]

boolToFloat(b) == IF b THEN 1 ELSE 0

RECURSIVE SetDevices(_, _)
SetDevices(st, ds) ==
  IF ds = <<>> THEN st
  ELSE LET d == Head(ds)
           s1 == GaugeSet(st, <<"lawo_vsm_device_status", d.name, d.type>>,
                          boolToFloat(d.status = "OK"))
       IN  SetDevices(GaugeSet(s1, <<"lawo_vsm_connection_status", d.name, d.type>>,
                               boolToFloat(d.connected)), Tail(ds))

RECURSIVE SetPathways(_, _)
SetPathways(st, ps) ==
  IF ps = <<>> THEN st
  ELSE LET q == Head(ps)
       IN  SetPathways(GaugeSet(st, <<"lawo_vsm_pathway_status", q.name, q.source,
                                      q.destination>>, boolToFloat(q.active)), Tail(ps))

\* alarmCounts: the three preset severities, plus every severity met.
AlarmCount(as, sev) == Cardinality({i \in DOMAIN as : as[i].severity = sev})
AlarmLabels(as) ==
  {"critical", "warning", "info"} \cup {as[i].severity : i \in DOMAIN as}

VsmAlarmKey(sev) == <<"lawo_vsm_active_alarms", sev>>

\* The loop over alarmCounts; the children it writes are distinct, so the
\* order of the map iteration does not show.
SetAlarms(st, as) ==
  [k \in DOMAIN st \cup {VsmAlarmKey(sev) : sev \in AlarmLabels(as)} |->
     IF \E sev \in AlarmLabels(as) : k = VsmAlarmKey(sev)
     THEN AlarmCount(as, k[2])
     ELSE st[k]]

\* Collect: [ok, st] - whether it returned nil, and the vectors afterwards.
Collect(st, ans) ==
  LET devices == getList(ans.devices)
      s1 == SetDevices(st, devices.list)
      pathways == getList(ans.pathways)
      s2 == SetPathways(s1, pathways.list)
      alarms == getList(ans.alarms)
  IN  IF devices.err THEN [ok |-> FALSE, st |-> st]
      ELSE IF pathways.err THEN [ok |-> FALSE, st |-> s1]
      ELSE IF alarms.err THEN [ok |-> FALSE, st |-> s2]
      ELSE [ok |-> TRUE, st |-> SetAlarms(s2, alarms.list)]

\* NewLawoVSMExporter: no child yet.
InitVSM ==
  /\ NoCollector
  /\ PTPIdle /\ ScrapeIdle /\ GenIdle
  /\ vsmStore = EmptyStore
  /\ vsmPos = "idle"
  /\ vsmLast = VsmNoRun

\* The ticker of main fires: Collect is entered and sends the devices
\* request.
VSMTick ==
  /\ vsmPos = "idle"
  /\ vsmPos' = "devices"
  /\ vsmLast' = [ran |-> TRUE, ok |-> FALSE, from |-> vsmStore, answer |-> VsmUnanswered]
  /\ UNCHANGED <<vsmStore, collector, ptpVars, scrapeVars, genVars>>

\* getDevices returns: Collect returns its error, or writes the device
\* gauges and sends the pathways request.
VSMDevices ==
  \E ans \in VsmDeviceAnswers : \E devices \in {getList(ans)} :
    /\ vsmPos = "devices"
    /\ vsmLast' = [vsmLast EXCEPT !.answer.devices = ans]
    /\ IF devices.err
       THEN vsmPos' = "idle" /\ UNCHANGED vsmStore
       ELSE vsmPos' = "pathways" /\ vsmStore' = SetDevices(vsmStore, devices.list)
    /\ UNCHANGED <<collector, ptpVars, scrapeVars, genVars>>

\* getPathways returns: Collect returns its error, or writes the pathway
\* gauges and sends the alarms request.
VSMPathways ==
  \E ans \in VsmPathwayAnswers : \E pathways \in {getList(ans)} :
    /\ vsmPos = "pathways"
    /\ vsmLast' = [vsmLast EXCEPT !.answer.pathways = ans]
    /\ IF pathways.err
       THEN vsmPos' = "idle" /\ UNCHANGED vsmStore
       ELSE vsmPos' = "alarms" /\ vsmStore' = SetPathways(vsmStore, pathways.list)
    /\ UNCHANGED <<collector, ptpVars, scrapeVars, genVars>>

\* getAlarms returns: Collect returns its error, or writes the alarm gauges
\* and returns nil.
VSMAlarms ==
  \E ans \in VsmAlarmAnswers : \E alarms \in {getList(ans)} :
    /\ vsmPos = "alarms"
    /\ vsmPos' = "idle"
    /\ vsmLast' = [vsmLast EXCEPT !.answer.alarms = ans, !.ok = ~alarms.err]
    /\ IF alarms.err
       THEN UNCHANGED vsmStore
       ELSE vsmStore' = SetAlarms(vsmStore, alarms.list)
    /\ UNCHANGED <<collector, ptpVars, scrapeVars, genVars>>

NextVSM == VSMTick \/ VSMDevices \/ VSMPathways \/ VSMAlarms

VSMSpec == InitVSM /\ [][NextVSM]_vars

\* =============================================================== claims

\* C1: at every instant each configured switch has at most one goroutine
\* inside Subscribe, so at most one active subscription session.
C1_OneSessionPerTarget == \A s \in Sessions : running[s] <= 1

\* A switch whose single session is receiving updates.
C1_Witness == \E s \in Sessions : Active(s) /\ pc[s] = "recv" /\ running[s] = 1

\* C2: whenever the session of a switch has ended with an error and the
\* process lives, a new session for that switch is eventually started.
C2_FailedSessionRestarts ==
  \A s \in Sessions :
    [](pc[s] = "failed" /\ proc # "dead" => <>(Active(s) \/ proc = "dead"))

\* C3: once the context is cancelled, a session blocked in its connect call
\* or in its receive call can return at once: its return with an error is
\* enabled by the cancellation, whatever its own timer shows.
C3_Release(s) == ConnectTimeout(s) \/ RecvErr(s)
C3_CancelReleasesBlockedCall ==
  \A s \in Sessions :
    (Live(s) /\ ctxDone[s] /\ pc[s] \in {"connect", "recv"}) => ENABLED C3_Release(s)

\* C4: a receiving session never stays silent for longer than its stall
\* window: by then it has ended with a stalled stream error.
C4_SilentStreamStalls ==
  \A s \in Sessions : (Active(s) /\ pc[s] = "recv") => waited[s] <= StallWindow

\* C5: a run operation that has returned without error was given a context
\* that is cancelled.
C5_NilOnlyOnCancel == \A s \in Sessions : pc[s] = "returned" => ctxDone[s]

\* C6: after a session failure the supervisor of the switch is waiting its
\* backoff before the next retry, or has retried: while the process lives it
\* has never ended, so the wait before retry N+1 exists for every N.
C6_RetryWaitFollowsFailure ==
  \A s \in Sessions : proc # "dead" => pc[s] # "exited"

\* C7: the session of a switch stops being active only through its own
\* failure (its own connect, stream or decode error): nothing that happens
\* for another switch, and nothing short of a global shutdown, stops it.
C7_OnlyOwnFailureEndsSession ==
  [][\A s \in Sessions :
       (Active(s) /\ ~Active(s)') => (pc[s] # pc'[s] /\ pc'[s] \in {"failed", "panicked"})]_vars

\* C8: for a Counter child whose updates carried non-decreasing values, the
\* stored value equals the value carried by the last applied update.
C8_StoredEqualsLastCarried ==
  \A s \in Sessions : \A k \in DOMAIN carried[s] :
    carried[s][k].mono => store[s][k] = carried[s][k].last

\* C9: when an update carries a value lower than the stored value of the same
\* Counter child, the stored value is replaced by the new lower value.
C9_DropsKey(s, u) ==
  Key("arista_hw_queue_drops_total", Target(s),
      KeyGet(ElemAt(u.path, 4).key, "name"), KeyGet(ElemAt(u.path, 6).key, "queue-id"))
C9_LowerValueResets ==
  [][\A s \in DOMAIN cfg : \A u \in Updates :
       (/\ pc[s] = "recv"
        /\ kind[s] = "arista"
        /\ IsDropsPath(u.path)
        /\ u.val.kind = "uint"
        /\ C9_DropsKey(s, u) \in DOMAIN store[s]
        /\ u.val.n < store[s][C9_DropsKey(s, u)]
        /\ RecvUpdate(s, UpdateResponse(<<u>>)))
       => store'[s][C9_DropsKey(s, u)] = u.val.n]_vars

\* C10: receiving an update on a path the handler has no branch for changes
\* no store entry and leaves the session receiving.
C10_GnmiPaths == {CountersPath(i) : i \in Ifaces} \cup {QosPath(i, "q0") : i \in Ifaces}
C10_AristaPaths == {AristaLeafPath(i, "q0") : i \in Ifaces}
C10_GnmiUnrecognized == {u \in Updates : u.path.present /\ u.path \notin C10_GnmiPaths}
C10_AristaUnrecognized == {u \in Updates : u.path.present /\ u.path \notin C10_AristaPaths}
C10_Unrecognized(k) == IF k = "gnmi" THEN C10_GnmiUnrecognized ELSE C10_AristaUnrecognized
C10_UnrecognizedPathSkipped ==
  [][\A s \in DOMAIN cfg : \A u \in C10_Unrecognized(kind[s]) :
       (/\ pc[s] = "recv"
        /\ lastEvt'[s] = Outcome(kind[s], UpdateResponse(<<u>>))
        /\ RecvUpdate(s, UpdateResponse(<<u>>)))
       => (store'[s] = store[s] /\ pc'[s] = "recv" /\ Active(s)')]_vars

\* A session that holds entries, has just skipped an update on an
\* unrecognized path, and is still receiving.
C10_Witness ==
  \E s \in Sessions :
    Active(s) /\ pc[s] = "recv" /\ lastEvt[s] = "skip" /\ store[s] # EmptyStore

\* C11: an update on a recognized path whose JSON payload does not unmarshal
\* is skipped: handling it creates or changes no store entry, and the session
\* stays in its receive loop.
C11_Undecodable ==
  {Update(CountersPath("eth0"), JsonVal(BadDoc)), Update(QosPath("eth0", "q0"), JsonVal(BadDoc))}
C11_UndecodablePayloadSkipped ==
  [][\A s \in DOMAIN cfg : \A u \in C11_Undecodable :
       (/\ pc[s] = "recv"
        /\ kind[s] = "gnmi"
        /\ lastEvt'[s] = "write"
        /\ RecvUpdate(s, UpdateResponse(<<u>>)))
       => (store'[s] = store[s] /\ pc'[s] = "recv")]_vars

\* C12: the entries of a switch whose session has ended do not stay unflagged
\* forever: while the process lives, a scrape eventually shows every one of
\* them flagged stale.
C12_Flagged(e) == "stale" \in DOMAIN e /\ e.stale
C12_EndedSessionEntriesFlagged ==
  \A s \in Sessions :
    [](pc[s] = "exited" /\ store[s] # EmptyStore /\ proc # "dead"
         => <>(proc = "dead" \/ \A e \in Snapshot(store[s]) : C12_Flagged(e)))

\* C13: every entry of the store of a switch carries the identity of that
\* switch, its configured name, as its switch label, so no entry is shared
\* with a switch configured under another name.
C13_EntriesCarryOwner ==
  \A s \in DOMAIN cfg : \A k \in DOMAIN store[s] :
    /\ k[2] = cfg[s].name
    /\ \A t \in DOMAIN cfg : cfg[t].name # cfg[s].name => k \notin DOMAIN store[t]

\* C14: the collector that runs the session of a switch is the one its vendor
\* tag selects: the Arista collector for "arista", the Cisco collector for
\* "cisco", the generic gNMI collector otherwise.
C14_Selected(v) ==
  CASE v = "arista" -> "arista" [] v = "cisco" -> "cisco" [] OTHER -> "gnmi"
C14_DecoderFollowsVendorTag ==
  \A s \in Sessions : Active(s) => kind[s] = C14_Selected(cfg[s].vendor)

\* C15: the updates of a stream are applied in arrival order: whatever a
\* receiving gNMI session has stored from the earlier notifications, once it
\* has handled the next notification every entry the last update of that
\* notification writes holds the value that update carries, and never the
\* value of an earlier update.
C15_Written ==
  {r \in Responses :
     /\ r.type = "update" /\ r.updates # <<>>
     /\ \A i \in 1..Len(r.updates) : r.updates[i].path.present
     /\ Branch("gnmi", r.updates[Len(r.updates)].path) # "none"
     /\ HasJsonIetfVal(r.updates[Len(r.updates)].val)}
C15_Points(s, r) == GnmiApply(EmptyStore, Target(s), r.updates[Len(r.updates)])
C15_After(s, r) == HandleResponse(kind[s], store[s], Target(s), r).store
C15_LastUpdateWins ==
  \A s \in DOMAIN cfg :
    (pc[s] = "recv" /\ kind[s] = "gnmi") =>
      \A r \in C15_Written :
        \A p \in {C15_Points(s, r)} : \A a \in {C15_After(s, r)} :
          \A k \in DOMAIN p : a[k] = p[k]

\* A gNMI session that has applied several updates: it holds the received
\* octets of two interfaces, with different values.
C15_Witness ==
  \E s \in DOMAIN cfg :
    /\ pc[s] = "recv" /\ kind[s] = "gnmi" /\ lastEvt[s] = "write"
    /\ Key("st2110_switch_interface_rx_bytes", Target(s), "eth0", "") \in DOMAIN store[s]
    /\ Key("st2110_switch_interface_rx_bytes", Target(s), "eth1", "") \in DOMAIN store[s]
    /\ store[s][Key("st2110_switch_interface_rx_bytes", Target(s), "eth0", "")]
         # store[s][Key("st2110_switch_interface_rx_bytes", Target(s), "eth1", "")]

\* C16: a scrape taken right after a write shows the write: whatever a
\* receiving gNMI session holds, once it has handled an update that its
\* handler writes, the scrape contains exactly one sample for each identity
\* the update writes, and that sample has the written value.
C16_Writes ==
  {u \in Updates :
     u.path.present /\ Branch("gnmi", u.path) # "none" /\ HasJsonIetfVal(u.val)}
C16_SamplesOf(snap, k) == {e \in snap : e.key = k}
C16_ScrapeShowsWrite ==
  \A s \in DOMAIN cfg :
    (pc[s] = "recv" /\ kind[s] = "gnmi") =>
      \A u \in C16_Writes :
        \A p \in {GnmiApply(EmptyStore, Target(s), u)} :
          \A snap \in {Snapshot(GnmiApply(store[s], Target(s), u))} :
            \A k \in DOMAIN p :
              /\ Cardinality(C16_SamplesOf(snap, k)) = 1
              /\ \A e \in C16_SamplesOf(snap, k) : e.value = p[k]

\* A gNMI session that has just written, whose scrape shows a sample of
\* value 1 next to a sample of value 0.
C16_Witness ==
  \E s \in DOMAIN cfg :
    /\ pc[s] = "recv" /\ kind[s] = "gnmi" /\ lastEvt[s] = "write"
    /\ \E e, f \in Snapshot(store[s]) : e.value = 1 /\ f.value = 0

\* C17: once the session of a switch has handled an interface counters update
\* with in-octets = v at interface i, the store holds the received octets
\* entry labelled with the name of the switch and i, with value v.
C17_RxKey(s, i) == Key("st2110_switch_interface_rx_bytes", cfg[s].name, i, "")
C17_RxBytesLabelledByName ==
  [][\A s \in DOMAIN cfg : \A i \in Ifaces : \A v \in Vals :
       (/\ pc[s] = "recv"
        /\ kind[s] = "gnmi"
        /\ lastEvt'[s] = "write"
        /\ waited'[s] = 0
        /\ RecvUpdate(s, UpdateResponse(<<Update(CountersPath(i),
                                                  JsonVal(Doc("in-octets" :> v)))>>)))
       => (/\ C17_RxKey(s, i) \in DOMAIN store'[s]
           /\ store'[s][C17_RxKey(s, i)] = v)]_vars

\* C18: what a recognized update contributes to the store depends on the
\* update and the target alone: whatever the store holds when the update is
\* handled (the same update handled before included), the entries it writes
\* end up with the values it writes into an empty store.
C18_GnmiRecognized == {u \in Updates : u.path.present /\ Branch("gnmi", u.path) # "none"}
C18_AristaRecognized == {u \in Updates : u.path.present /\ Branch("arista", u.path) # "none"}
C18_Recognized(k) == IF k = "gnmi" THEN C18_GnmiRecognized ELSE C18_AristaRecognized
C18_PointsIgnoreStore ==
  [][\A s \in DOMAIN cfg : \A u \in C18_Recognized(kind[s]) :
       (/\ pc[s] = "recv"
        /\ lastEvt'[s] = "write"
        /\ waited'[s] = 0
        /\ RecvUpdate(s, UpdateResponse(<<u>>)))
       => \A p \in {ApplyUpdate(kind[s], EmptyStore, Target(s), u)} :
            \A k \in DOMAIN p : store'[s][k] = p[k]]_vars

\* C19: after a session failure of a switch the store holds health entries
\* for it (a failure counter, a last session error): entries keyed by the
\* switch that belong to none of the telemetry vectors.
C19_HealthKeys(s) ==
  {k \in DOMAIN store[s] :
     k[1] \notin MetricNames(kind[s]) /\ k[2] \in {cfg[s].name, cfg[s].target}}
C19_FailureWritesHealth ==
  \A s \in Sessions : pc[s] \in {"failed", "exited"} => C19_HealthKeys(s) # {}

\* C20: an entry of the switches list that does not decode is fatal for that
\* entry alone: the process is never ended before its start loop has handled
\* an entry of a configuration that holds such an entry.
C20_MalformedEntryNotFatal ==
  \A i \in DOMAIN cfg : ~WellFormed(cfg[i]) => ~(proc = "dead" /\ idx = 1)

\* C21: a connect error or a stream error of a session never ends the
\* process: the step in which a session fails, and the step in which its
\* goroutine logs the error and ends, leave the process in the state it was
\* in and leave every store entry as it was.
C21_SessionErrorNotFatal ==
  [][\A s \in Sessions :
       (pc'[s] # pc[s] /\ pc'[s] \in {"failed", "exited"})
         => (proc' = proc /\ store' = store)]_vars

\* The process serves the metrics endpoint after the session of a switch has
\* ended with an error, and the entries of that switch are still in the store.
C21_Witness ==
  \E s \in Sessions :
    pc[s] = "exited" /\ proc = "serving" /\ store[s] # EmptyStore

\* C22: after every run of CollectPTPMetrics the clock state gauge holds 0
\* when the query failed or reported a state other than LOCKED and
\* HOLDOVER, 1 when it reported LOCKED or no state, 2 when it reported
\* HOLDOVER; and a failed query leaves every other gauge as it was.
C22_Expected(report) ==
  CASE report \in {"LOCKED", "nostate"} -> 1 [] report = "HOLDOVER" -> 2 [] OTHER -> 0
C22_StateKey == PtpKey("st2110_ptp_clock_state", "")
C22_Others(st) == [k \in DOMAIN st \ {C22_StateKey} |-> st[k]]
C22_ClockStateFollowsQuery ==
  [][/\ C22_StateKey \in DOMAIN ptpStore'
     /\ ptpStore'[C22_StateKey] = C22_Expected(ptpLast')
     /\ ptpLast' = "failed" => C22_Others(ptpStore') = C22_Others(ptpStore)]_vars

\* A failed query after a successful one: the state gauge is 0 and the
\* offset gauge still holds its value; and a run that reported HOLDOVER.
C22_Witness ==
  \/ /\ ptpLast = "failed"
     /\ PtpKey("st2110_ptp_offset_nanoseconds", "grandmaster") \in DOMAIN ptpStore
     /\ ptpStore[C22_StateKey] = 0
  \/ /\ ptpLast = "HOLDOVER"
     /\ ptpStore[C22_StateKey] = 2
     /\ PtpKey("st2110_ptp_steps_removed", "") \in DOMAIN ptpStore

\* C23: an update on the hardware queue drops path that SubscribeArista
\* declares is recognized by the Arista handler: once it is handled the store
\* holds arista_hw_queue_drops_total labelled with the interface name and
\* the queue-id of the update.
C23_Declared == Update(AristaDropsPath("eth0", "q0"), UintVal(1))
C23_DeclaredPathWritten ==
  [][\A s \in DOMAIN cfg :
       (/\ pc[s] = "recv"
        /\ kind[s] = "arista"
        /\ waited'[s] = 0
        /\ RecvUpdate(s, UpdateResponse(<<C23_Declared>>)))
       => Key("arista_hw_queue_drops_total", Target(s), "eth0", "q0") \in DOMAIN store'[s]]_vars

\* C24: receiving the end-of-initial-sync marker changes no store entry and
\* does not end the session: the session is still in its receive loop, where
\* the next update is handled as any update is.
C24_SyncMarkerChangesNothing ==
  [][\A s \in DOMAIN cfg :
       (/\ pc[s] = "recv"
        /\ lastEvt'[s] = "sync"
        /\ waited'[s] = 0
        /\ RecvUpdate(s, SyncResponse))
       => (store' = store /\ carried' = carried /\ pc'[s] = "recv" /\ Active(s)')]_vars

\* A session that holds entries has just received the marker and is
\* receiving.
C24_Witness ==
  \E s \in Sessions :
    Active(s) /\ pc[s] = "recv" /\ lastEvt[s] = "sync" /\ store[s] # EmptyStore

\* C25: every iteration of the start loop builds the collector of its entry
\* and starts its goroutine, whatever collectors were built before: the
\* process goes on and the goroutine of the entry is running.
C25_EveryCollectorStarts ==
  [][StartCollector => (proc' = "starting" /\ running'[idx] = 1 /\ idx' = idx + 1)]_vars

\* C26: handling an interface counters update leaves the gauges of the
\* counter fields that its payload does not carry at their previous values.
C26_Fields ==
  {<<"in-octets", "st2110_switch_interface_rx_bytes">>,
   <<"out-octets", "st2110_switch_interface_tx_bytes">>,
   <<"in-errors", "st2110_switch_interface_rx_errors">>,
   <<"out-errors", "st2110_switch_interface_tx_errors">>,
   <<"in-discards", "st2110_switch_interface_rx_drops">>,
   <<"out-discards", "st2110_switch_interface_tx_drops">>}
C26_Docs == {d \in CounterDocs : d.valid}
C26_AbsentFieldsKept ==
  [][\A s \in DOMAIN cfg : \A d \in C26_Docs :
       (/\ pc[s] = "recv"
        /\ kind[s] = "gnmi"
        /\ lastEvt'[s] = "write"
        /\ waited'[s] = 0
        /\ RecvUpdate(s, UpdateResponse(<<Update(CountersPath("eth0"), JsonVal(d))>>)))
       => \A f \in C26_Fields :
            (~Member(d, f[1]) /\ Key(f[2], Target(s), "eth0", "") \in DOMAIN store[s])
              => store'[s][Key(f[2], Target(s), "eth0", "")]
                   = store[s][Key(f[2], Target(s), "eth0", "")]]_vars

\* C28: no gRPC connection stays open for a target that has no active
\* session: when Subscribe has returned after a successful Connect, the
\* connection of that collector has been closed.
C28_ConnectionClosedOnReturn ==
  \A s \in Sessions : conn[s] => Active(s)

\* C27: a scrape that runs while handleUpdate applies an interface counters
\* update returns the six gauges of the interface either all at their values
\* from before the update or all at their values from after it.
RECURSIVE C27_Applied(_, _)
C27_Applied(st, sets) ==
  IF sets = <<>> THEN st
  ELSE C27_Applied(GaugeSet(st, Head(sets)[1], Head(sets)[2]), Tail(sets))
C27_After == C27_Applied(hBefore, hSets)
C27_ScrapeSeesWholeUpdate ==
  [][(Scrape /\ hPos # 0 /\ hBefore # EmptyStore)
       => scraped' \in {Snapshot(hBefore), Snapshot(C27_After)}]_vars
C27_SetsAreTheHandler ==
  hPos # 0 => C27_After = SetCounters(hBefore, Target(1), CountersPath("eth0"),
                            JsonVal(Doc(("in-octets" :> hSets[1][2])
                                          @@ ("out-octets" :> hSets[2][2]))))

\* C29: a tick of the test stream generator moves the sequence number by 1
\* modulo 2^16 when the packet is sent or skipped as injected loss and leaves
\* it alone when sendPacket returns an error; the packet sent after k
\* consecutive injected losses carries the sequence number of the packet sent
\* before them plus k + 1 modulo 2^16; the timestamp moves by 1500 modulo 2^32
\* for a sent packet and not otherwise.
C29_SequenceAndTimestamp ==
  [][genTicks' # genTicks =>
       /\ genLast' \in {"sent", "loss"} => seqNumber' = (seqNumber + 1) % 65536
       /\ genLast' = "error" => seqNumber' = seqNumber
       /\ (genLast' = "sent" /\ lastSentSeq # -1)
            => (lastSentSeq' - lastSentSeq - 1) % 65536 = lostSince
       /\ genLast' = "sent"
            => /\ timestamp'.lo = (timestamp.lo + 1500) % 65536
               /\ timestamp'.hi
                    = (timestamp.hi + (IF timestamp.lo + 1500 >= 65536 THEN 1 ELSE 0)) % 65536
       /\ genLast' # "sent" => timestamp' = timestamp]_vars
\* A packet was sent with sequence number 65534 and the tick after it was
\* skipped as injected loss, which wrapped the sequence number to 0.
C29_Witness ==
  /\ genLast = "loss"
  /\ seqNumber = 0
  /\ lastSentSeq = 65534
  /\ lostSince = 1

\* C30: after a Collect of the Lawo VSM exporter that returned no error,
\* every severity that has a lawo_vsm_active_alarms entry shows the number
\* of active alarms of that severity in the alarms response just fetched.
C30_AlarmGaugesMatchResponse ==
  (vsmPos = "idle" /\ vsmLast.ran /\ vsmLast.ok)
    => \A sev \in VsmSeverities :
         VsmAlarmKey(sev) \in DOMAIN vsmStore
           => vsmStore[VsmAlarmKey(sev)] = AlarmCount(vsmLast.answer.alarms.list, sev)

\* The steps of a finished run of Collect, taken together, are Collect.
C30_StepsAreCollect ==
  (vsmPos = "idle" /\ vsmLast.ran)
    => /\ vsmStore = Collect(vsmLast.from, vsmLast.answer).st
       /\ vsmLast.ok = Collect(vsmLast.from, vsmLast.answer).ok

====
